---- MODULE Spec2Model ----
(***************************************************************************)
(* Model of the background operation framework of win_opt:                 *)
(*   - the worker threads of executor.rs (spawn_repair_worker,             *)
(*     spawn_windows_update_worker, spawn_command_worker, execute_command),*)
(*   - the WorkerHandle of types.rs and its Drop implementation,           *)
(*   - the interactive thread of app.rs (App::run, process_worker_messages,*)
(*     handle_events, handle_menu_input, handle_operation_input) together  *)
(*     with the synchronous execute_* operations it calls.                 *)
(*                                                                         *)
(* Texts are sequences of string tokens, so that format!("{}{}", a, b) is  *)
(* the concatenation a \o b.  Fields of App that no modelled handler reads *)
(* back (theme, i18n, config, spinner, scroll_offset) are left out.        *)
(***************************************************************************)
EXTENDS Integers, Sequences, FiniteSets, TLC

\* ------------------------------------------------------------------ bounds
\* Number of key presses handled in one run of the application.
MaxKeys == 2

\* Number of key presses handled in one run in which no worker is spawned.
MaxMenuKeys == 14

\* ------------------------------------------------------- program constants
\* handle_menu_input: (selected_menu_item + 1).min(13)
MenuMax == 13

\* Option<WorkerHandle>: None, or Some(handle of the current worker)
None == "None"

Some == "Some"

Kinds == {"repair", "wu", "command"}

\* ---------------------------------------------------------------- messages
\* WorkerMessage (types.rs): every variant is a record [type, val].
Log(text) == [type |-> "Log", val |-> text]

StateChange(state) == [type |-> "StateChange", val |-> <<state>>]

ErrorMsg(text) == [type |-> "Error", val |-> text]

StatsUpdate(stats) == [type |-> "StatsUpdate", val |-> stats]

Completed == [type |-> "Completed", val |-> <<>>]

\* CleanStats::default()
ZeroStats == <<0, 0, 0>>

\* ------------------------------------------------------- external commands
\* Result of Command::new(..).output(): Err(e) (launched = FALSE) or
\* Ok(output) with an exit status and the two captured streams, as lines.
LaunchFailure == [launched |-> FALSE, success |-> FALSE, stdout |-> <<>>, stderr |-> <<>>]

Outcomes ==
    { LaunchFailure,
      [launched |-> TRUE, success |-> TRUE,
       stdout |-> <<"out", "out2">>, stderr |-> <<>>],
      [launched |-> TRUE, success |-> FALSE,
       stdout |-> <<"", "out">>,     stderr |-> <<" ", "err", "", "err2">>] }

\* line.trim().is_empty()
IsBlank(line) == line \in {"", " "}

VARIABLES
    \* ---- App (app.rs:20-45)
    current_view, selected_menu_item, operation_logs, operation_state,
    clean_stats, should_quit, worker_handle,
    \* ---- position of the interactive thread and its locals
    ipc, pending,
    \* ---- the WorkerHandle and the worker thread of the current operation
    kind, wpc, step, cancel_flag, chan, receiver, thread_handle,
    out, success, res,
    \* ---- history of the current operation (observation only)
    nkeys, liveThreads, sent, received, sawCancel, invocations, outcomes,
    cancelReq, dropBegan, failedSend, afterFail

uiVars == <<current_view, selected_menu_item, operation_logs, operation_state,
            clean_stats, should_quit, worker_handle>>

mainVars == <<ipc, pending>>

workerVars == <<kind, wpc, step, cancel_flag, chan, receiver, thread_handle,
                out, success, res>>

histVars == <<nkeys, liveThreads, sent, received, sawCancel,
              invocations, outcomes, cancelReq, dropBegan, failedSend, afterFail>>

vars == <<uiVars, mainVars, workerVars, histVars>>

\* ------------------------------------------------------------------- Init
\* App::default(): the App exists, App::run has not been called yet, and no
\* worker has been spawned.
Init ==
    /\ current_view = "MainMenu"
    /\ selected_menu_item = 0
    /\ operation_logs = <<>>
    /\ operation_state = "Idle"
    /\ clean_stats = ZeroStats
    /\ should_quit = FALSE
    /\ worker_handle = None
    /\ ipc = "new"
    /\ pending = 0
    /\ kind = "none"
    /\ wpc = "none"
    /\ step = 0
    /\ cancel_flag = FALSE
    /\ chan = <<>>
    /\ receiver = FALSE
    /\ thread_handle = "none"
    /\ out = <<>>
    /\ success = FALSE
    /\ res = <<>>
    /\ nkeys = 0
    /\ liveThreads = 0
    /\ sent = <<>>
    /\ received = <<>>
    /\ sawCancel = 0
    /\ invocations = 0
    /\ outcomes = <<>>
    /\ cancelReq = "none"
    /\ dropBegan = "none"
    /\ failedSend = FALSE
    /\ afterFail = 0


\* ---------------------------------------------------------------- channel
\* mpsc::Sender::send on an unbounded channel: the message goes to the back
\* of the queue.
EnqueueFront(q, m) == <<m>> \o q

Enqueue(q, m) == Append(q, m)

\* send_log / send_state / send_error / sender.send: the message is queued
\* iff the receiving end still exists; the boolean result is SendOk.
SendOk == receiver

Send(m) ==
    /\ chan' = IF receiver THEN Enqueue(chan, m) ELSE chan
    /\ sent' = IF receiver THEN Append(sent, m) ELSE sent
    /\ afterFail' = IF failedSend THEN afterFail + 1 ELSE afterFail
    /\ failedSend' = (failedSend \/ ~receiver)

NoSend == UNCHANGED <<chan, sent, failedSend, afterFail>>

\* The thread continues at label; a thread that returns is no longer live.
Goto(label) ==
    /\ wpc' = label
    /\ liveThreads' = IF label = "exited" THEN liveThreads - 1 ELSE liveThreads

\* What a worker step never touches.
WorkerRest ==
    UNCHANGED <<uiVars, mainVars, kind, cancel_flag, receiver, thread_handle,
                nkeys, received, cancelReq, dropBegan>>

\* ------------------------------------------------------------ worker texts
Header(k) == <<"=== start ", k>>

CancelText == <<"cancelled by user">>

PreLogA(k, s) == <<"pre-a ", k, IF s = 1 THEN "1" ELSE "2">>

PreLogB(k, s) == <<"pre-b ", k, IF s = 1 THEN "1" ELSE "2">>

AnnounceText == <<"Ejecutando">>

OkText == <<"command ok">>

FailText == <<"command failed with code">>

LaunchErrText == <<"Error al ejecutar comando">>

DismFailText == <<"DISM failed, continuing with SFC">>

DoneText(k) == <<"=== done ", k>>

DoneErrText(k) == <<"finished with errors ", k>>

\* ------------------------------------------------------- worker: prologue
\* thread closure, first statement: send_state(Running), return if closed.
W_SendRunning ==
    /\ wpc = "spawned"
    /\ Send(StateChange("Running"))
    /\ Goto(IF SendOk THEN "header" ELSE "returning")
    /\ UNCHANGED <<step, out, success, res, sawCancel, invocations, outcomes>>
    /\ WorkerRest

\* second statement: send_log(header), return if closed.
W_SendHeader ==
    /\ wpc = "header"
    /\ Send(Log(Header(kind)))
    /\ Goto(IF SendOk THEN "check" ELSE "returning")
    /\ step' = 1
    /\ UNCHANGED <<out, success, res, sawCancel, invocations, outcomes>>
    /\ WorkerRest

\* The text logs sent before a step: two for the repair steps and for the
\* Windows Update step, none for the generic command worker.
HasPreLogs(k) == k \in {"repair", "wu"}

W_CheckCancelIgnoresFlag ==
    /\ wpc = "check"
    /\ Goto(IF HasPreLogs(kind) THEN "pre_a" ELSE "exec_announce")
    /\ NoSend
    /\ UNCHANGED <<step, out, success, res, sawCancel, invocations, outcomes>>
    /\ WorkerRest

\* cancel_flag_clone.load(Ordering::Relaxed) before a step.
W_CheckCancel ==
    /\ wpc = "check"
    /\ IF cancel_flag
          THEN /\ Goto("cancel_log")
               /\ sawCancel' = step
          ELSE /\ Goto(IF HasPreLogs(kind) THEN "pre_a" ELSE "exec_announce")
               /\ UNCHANGED sawCancel
    /\ NoSend
    /\ UNCHANGED <<step, out, success, res, invocations, outcomes>>
    /\ WorkerRest

\* cancellation branch: send_log("cancelled"); send_state(Failed);
\* sender.send(Completed); return.  No result is looked at.
W_CancelLogSkipsState ==
    /\ wpc = "cancel_log"
    /\ Send(Log(CancelText))
    /\ Goto("completed")
    /\ UNCHANGED <<step, out, success, res, sawCancel, invocations, outcomes>>
    /\ WorkerRest

W_CancelLog ==
    /\ wpc = "cancel_log"
    /\ Send(Log(CancelText))
    /\ Goto("cancel_state")
    /\ UNCHANGED <<step, out, success, res, sawCancel, invocations, outcomes>>
    /\ WorkerRest

W_CancelStateCompleted ==
    /\ wpc = "cancel_state"
    /\ Send(StateChange("Completed"))
    /\ Goto("completed")
    /\ UNCHANGED <<step, out, success, res, sawCancel, invocations, outcomes>>
    /\ WorkerRest

W_CancelStateReturns ==
    /\ wpc = "cancel_state"
    /\ Send(StateChange("Failed"))
    /\ Goto("exited")
    /\ UNCHANGED <<step, out, success, res, sawCancel, invocations, outcomes>>
    /\ WorkerRest

W_CancelState ==
    /\ wpc = "cancel_state"
    /\ Send(StateChange("Failed"))
    /\ Goto("completed")
    /\ UNCHANGED <<step, out, success, res, sawCancel, invocations, outcomes>>
    /\ WorkerRest

W_PreLogA ==
    /\ wpc = "pre_a"
    /\ Send(Log(PreLogA(kind, step)))
    /\ Goto("pre_b")
    /\ UNCHANGED <<step, out, success, res, sawCancel, invocations, outcomes>>
    /\ WorkerRest

W_PreLogB ==
    /\ wpc = "pre_b"
    /\ Send(Log(PreLogB(kind, step)))
    /\ Goto("exec_announce")
    /\ UNCHANGED <<step, out, success, res, sawCancel, invocations, outcomes>>
    /\ WorkerRest

\* ---------------------------------------------------- execute_command
AfterExecStopsOnFailure(k, s, r) ==
    IF k = "repair" /\ s = 1 /\ r THEN "check" ELSE "final_log"

\* Where the caller continues when execute_command returns r: the repair
\* worker goes on to its second step after the first (through the DISM
\* error message when r is false), every other return leads to the result.
AfterExec(k, s, r) ==
    IF k = "repair" /\ s = 1
       THEN (IF r THEN "check" ELSE "dism_fail")
       ELSE "final_log"

\* execute_command returns r to the worker closure; its locals are gone.
Return(r) ==
    /\ Goto(AfterExec(kind, step, r))
    /\ res' = Append(res, r)
    /\ step' = IF AfterExec(kind, step, r) = "check" THEN step + 1 ELSE step
    /\ out' = <<>>
    /\ success' = FALSE

\* send_log("Ejecutando: ..."); return false if the channel is closed.
X_Announce ==
    /\ wpc = "exec_announce"
    /\ Send(Log(AnnounceText))
    /\ invocations' = invocations + 1
    /\ UNCHANGED outcomes
    /\ IF SendOk
          THEN /\ Goto("exec_proc")
               /\ UNCHANGED <<res, step, out, success>>
          ELSE Return(FALSE)
    /\ UNCHANGED sawCancel
    /\ WorkerRest

\* for line in stdout.lines(): the lines that are not blank, each as a Log.
StdoutLogs(lines) ==
    [i \in 1..Len(SelectSeq(lines, LAMBDA l : ~IsBlank(l))) |->
        Log(<<SelectSeq(lines, LAMBDA l : ~IsBlank(l))[i]>>)]

StderrLogsUntagged(lines) ==
    [i \in 1..Len(SelectSeq(lines, LAMBDA l : ~IsBlank(l))) |->
        Log(<<SelectSeq(lines, LAMBDA l : ~IsBlank(l))[i]>>)]

\* for line in stderr.lines(): the lines that are not blank, each as a Log
\* with format!("ERROR: {}", line).
StderrLogs(lines) ==
    [i \in 1..Len(SelectSeq(lines, LAMBDA l : ~IsBlank(l))) |->
        Log(<<"ERROR: ", SelectSeq(lines, LAMBDA l : ~IsBlank(l))[i]>>)]

\* The messages the two loops of execute_command send, in their order.
OutputLogs(oc) == StdoutLogs(oc.stdout) \o StderrLogs(oc.stderr)

X_ProcessKilledOnCancel ==
    /\ wpc = "exec_proc"
    /\ IF cancel_flag
          THEN /\ out' = <<>>
               /\ success' = FALSE
               /\ UNCHANGED outcomes
               /\ Goto("cancel_log")
          ELSE \E oc \in Outcomes :
                  /\ out' = OutputLogs(oc)
                  /\ success' = oc.success
                  /\ outcomes' = Append(outcomes, oc)
                  /\ Goto(IF ~oc.launched THEN "exec_lerr"
                          ELSE IF OutputLogs(oc) = <<>> THEN "exec_status"
                          ELSE "exec_lines")
    /\ NoSend
    /\ UNCHANGED <<step, res, sawCancel, invocations>>
    /\ WorkerRest

\* Command::new(command).args(args).output(): blocks until the external
\* process has exited (or could not be started).
X_Process ==
    /\ wpc = "exec_proc"
    /\ \E oc \in Outcomes :
          /\ out' = OutputLogs(oc)
          /\ success' = oc.success
          /\ outcomes' = Append(outcomes, oc)
          /\ Goto(IF ~oc.launched THEN "exec_lerr"
                  ELSE IF OutputLogs(oc) = <<>> THEN "exec_status"
                  ELSE "exec_lines")
    /\ NoSend
    /\ UNCHANGED <<step, res, sawCancel, invocations>>
    /\ WorkerRest

\* One send of the two loops; a failed send returns false at once.
X_Lines ==
    /\ wpc = "exec_lines"
    /\ Send(Head(out))
    /\ IF SendOk
          THEN /\ out' = Tail(out)
               /\ Goto(IF Tail(out) = <<>> THEN "exec_status" ELSE "exec_lines")
               /\ UNCHANGED <<res, step, success>>
          ELSE Return(FALSE)
    /\ UNCHANGED <<sawCancel, invocations, outcomes>>
    /\ WorkerRest

X_StatusReturnsTrue ==
    /\ wpc = "exec_status"
    /\ Send(Log(IF success THEN OkText ELSE FailText))
    /\ Return(TRUE)
    /\ UNCHANGED <<sawCancel, invocations, outcomes>>
    /\ WorkerRest

\* if output.status.success() { send_log(ok); true } else { send_log(failed); false }
X_Status ==
    /\ wpc = "exec_status"
    /\ Send(Log(IF success THEN OkText ELSE FailText))
    /\ Return(success)
    /\ UNCHANGED <<sawCancel, invocations, outcomes>>
    /\ WorkerRest

\* Err(e) => { send_error(..); false }
X_LaunchErr ==
    /\ wpc = "exec_lerr"
    /\ Send(ErrorMsg(LaunchErrText))
    /\ Return(FALSE)
    /\ UNCHANGED <<sawCancel, invocations, outcomes>>
    /\ WorkerRest

\* ------------------------------------------------------- worker: epilogue
\* if !dism_success { send_error("DISM failed ...") }
W_DismFail ==
    /\ wpc = "dism_fail"
    /\ Send(ErrorMsg(DismFailText))
    /\ Goto("check")
    /\ step' = step + 1
    /\ UNCHANGED <<out, success, res, sawCancel, invocations, outcomes>>
    /\ WorkerRest

\* dism_success && sfc_success (repair), success (the other two workers)
AllSucceeded == \A i \in 1..Len(res) : res[i]

W_FinalLog ==
    /\ wpc = "final_log"
    /\ Send(IF AllSucceeded THEN Log(DoneText(kind))
                                  ELSE ErrorMsg(DoneErrText(kind)))
    /\ Goto("final_state")
    /\ UNCHANGED <<step, out, success, res, sawCancel, invocations, outcomes>>
    /\ WorkerRest

W_FinalState ==
    /\ wpc = "final_state"
    /\ Send(StateChange(IF AllSucceeded THEN "Completed" ELSE "Failed"))
    /\ Goto("completed")
    /\ UNCHANGED <<step, out, success, res, sawCancel, invocations, outcomes>>
    /\ WorkerRest

W_CompletedForgotten ==
    /\ wpc = "completed"
    /\ NoSend
    /\ Goto("returning")
    /\ UNCHANGED <<step, out, success, res, sawCancel, invocations, outcomes>>
    /\ WorkerRest

\* let _ = sender.send(WorkerMessage::Completed);
W_Completed ==
    /\ wpc = "completed"
    /\ Send(Completed)
    /\ Goto("returning")
    /\ UNCHANGED <<step, out, success, res, sawCancel, invocations, outcomes>>
    /\ WorkerRest

W_ThreadEndSendsLog ==
    /\ wpc = "returning"
    /\ Send(Log(DoneText(kind)))
    /\ Goto("exited")
    /\ UNCHANGED <<step, out, success, res, sawCancel, invocations, outcomes>>
    /\ WorkerRest

\* The closure returns (after Completed or after an early return) and the
\* thread ends: from now on a join of its JoinHandle returns.
W_ThreadEnd ==
    /\ wpc = "returning"
    /\ NoSend
    /\ Goto("exited")
    /\ UNCHANGED <<step, out, success, res, sawCancel, invocations, outcomes>>
    /\ WorkerRest

Worker ==
    \/ W_SendRunning \/ W_SendHeader \/ W_CheckCancel
    \/ W_CancelLog \/ W_CancelState \/ W_PreLogA \/ W_PreLogB
    \/ X_Announce \/ X_Process \/ X_Lines
    \/ X_Status \/ X_LaunchErr
    \/ W_DismFail \/ W_FinalLog \/ W_FinalState \/ W_Completed \/ W_ThreadEnd

\* =========================================================== WorkerHandle
SpawnFlagSet(k) ==
    /\ kind' = k
    /\ wpc' = "spawned"
    /\ cancel_flag' = TRUE
    /\ receiver' = TRUE
    /\ thread_handle' = "some"
    /\ chan' = <<>>
    /\ liveThreads' = liveThreads + 1

\* spawn_repair_worker / spawn_windows_update_worker / spawn_command_worker:
\* a fresh channel, a fresh flag set to false, a spawned thread that has not
\* run yet, and the handle { receiver, thread_handle: Some(..), cancel_flag }.
Spawn(k) ==
    /\ kind' = k
    /\ wpc' = "spawned"
    /\ cancel_flag' = FALSE
    /\ receiver' = TRUE
    /\ thread_handle' = "some"
    /\ chan' = <<>>
    /\ liveThreads' = liveThreads + 1

\* History: whether the first store of true into the flag comes before the
\* worker has entered execute_command for the first time.
NoteCancel ==
    cancelReq' = IF cancelReq # "none" THEN cancelReq
                 ELSE IF invocations = 0 /\ wpc # "exited" THEN "before_first_step"
                 ELSE "later"

DropSkipsFlag ==
    /\ ipc = "drop_flag"
    /\ dropBegan' = wpc
    /\ ipc' = "drop_join"
    /\ UNCHANGED <<uiVars, pending, workerVars>>
    /\ UNCHANGED <<nkeys, liveThreads, sent, received, sawCancel,
                   invocations, outcomes, cancelReq, failedSend, afterFail>>

\* Drop::drop, first statement: self.cancel_flag.store(true, Relaxed).
DropStoreFlag ==
    /\ ipc = "drop_flag"
    /\ cancel_flag' = TRUE
    /\ NoteCancel
    /\ dropBegan' = wpc
    /\ ipc' = "drop_join"
    /\ UNCHANGED <<uiVars, pending>>
    /\ UNCHANGED <<kind, wpc, step, chan, receiver, thread_handle, out, success, res>>
    /\ UNCHANGED <<nkeys, liveThreads, sent, received, sawCancel,
                   invocations, outcomes, failedSend, afterFail>>

JoinDetached == TRUE

\* JoinHandle::join returns once the thread has run to its end.
JoinReturns == wpc = "exited"

\* Drop::drop, second statement: if let Some(handle) = self.thread_handle.take()
\* { let _ = handle.join(); }
DropJoin ==
    /\ ipc = "drop_join"
    /\ thread_handle = "some"
    /\ JoinReturns
    /\ thread_handle' = "taken"
    /\ ipc' = "drop_fields"
    /\ UNCHANGED <<uiVars, pending>>
    /\ UNCHANGED <<kind, wpc, step, cancel_flag, chan, receiver, out, success, res>>
    /\ UNCHANGED histVars

DropFieldsAppliesQueued ==
    /\ ipc = "drop_fields"
    /\ receiver' = FALSE
    /\ chan' = <<>>
    /\ worker_handle' = None
    /\ ipc' = IF should_quit THEN "exited" ELSE "events"
    /\ operation_logs' = operation_logs \o [i \in 1..Len(chan) |-> chan[i].val]
    /\ received' = received \o chan
    /\ UNCHANGED <<current_view, selected_menu_item,
                   operation_state, clean_stats, should_quit>>
    /\ UNCHANGED pending
    /\ UNCHANGED <<kind, wpc, step, cancel_flag, thread_handle, out, success, res>>
    /\ UNCHANGED <<nkeys, liveThreads, sent, sawCancel, invocations, outcomes,
                   cancelReq, dropBegan, failedSend, afterFail>>

\* After Drop::drop has returned the fields are dropped: the receiver goes
\* away together with whatever is still queued, and the slot is None.
DropFields ==
    /\ ipc = "drop_fields"
    /\ receiver' = FALSE
    /\ chan' = <<>>
    /\ worker_handle' = None
    /\ ipc' = IF should_quit THEN "exited" ELSE "events"
    /\ UNCHANGED <<current_view, selected_menu_item, operation_logs,
                   operation_state, clean_stats, should_quit>>
    /\ UNCHANGED pending
    /\ UNCHANGED <<kind, wpc, step, cancel_flag, thread_handle, out, success, res>>
    /\ UNCHANGED histVars

\* ================================================== App: the consumer loop
\* Receiver::try_recv: the message at the front of the queue, and the queue
\* that is left.
TryRecvMsg(q) == Head(q)

TryRecvRest(q) == Tail(q)

\* The match of process_worker_messages on one message.
ApplyLogs(logs, m) ==
    CASE m.type = "Log"   -> Append(logs, m.val)
      [] m.type = "Error" -> Append(logs, <<"X ERROR: ">> \o m.val)
      [] OTHER            -> logs

ApplyState(state, m) == IF m.type = "StateChange" THEN m.val[1] ELSE state

ApplyStatsAdds(stats, m) ==
    IF m.type = "StatsUpdate" THEN [i \in 1..3 |-> stats[i] + m.val[i]] ELSE stats

ApplyStats(stats, m) == IF m.type = "StatsUpdate" THEN m.val ELSE stats

ApplyClearNever(flag, m) == flag

ApplyClearOnError(flag, m) == flag \/ m.type \in {"Completed", "Error"}

ApplyClear(flag, m) == flag \/ m.type = "Completed"

\* while let Ok(message) = handle.receiver.try_recv() { match message {..} }
\* on operation_logs, operation_state, clean_stats, should_clear_worker and
\* the messages received so far, until the queue is empty.
RECURSIVE DrainLoop(_, _, _, _, _, _)
DrainLoop(logs, state, stats, clear, got, q) ==
    IF q = <<>>
       THEN [logs |-> logs, state |-> state, stats |-> stats,
             clear |-> clear, got |-> got]
       ELSE DrainLoop(ApplyLogs(logs, TryRecvMsg(q)),
                      ApplyState(state, TryRecvMsg(q)),
                      ApplyStats(stats, TryRecvMsg(q)),
                      ApplyClear(clear, TryRecvMsg(q)),
                      Append(got, TryRecvMsg(q)),
                      TryRecvRest(q))

ProcessWorkerMessagesClearsLogs ==
    /\ ipc = "tick"
    /\ IF worker_handle = None
          THEN /\ ipc' = "events"
               /\ operation_logs' = <<>>
               /\ UNCHANGED <<operation_state, clean_stats, chan, received>>
          ELSE LET u == DrainLoop(operation_logs, operation_state, clean_stats,
                                  FALSE, received, chan)
               IN  /\ operation_logs' = u.logs
                   /\ operation_state' = u.state
                   /\ clean_stats' = u.stats
                   /\ received' = u.got
                   /\ chan' = <<>>
                   /\ ipc' = IF u.clear THEN "drop_flag" ELSE "events"
    /\ UNCHANGED <<current_view, selected_menu_item, should_quit, worker_handle>>
    /\ UNCHANGED pending
    /\ UNCHANGED <<kind, wpc, step, cancel_flag, receiver, thread_handle, out, success, res>>
    /\ UNCHANGED <<cancelReq, nkeys, liveThreads, sent, sawCancel, invocations, outcomes,
                   dropBegan, failedSend, afterFail>>

\* process_worker_messages: with no handle in the slot nothing happens; with
\* one, everything queued is received and applied, and if Completed was among
\* it, self.worker_handle = None drops the handle (which blocks in the join).
ProcessWorkerMessages ==
    /\ ipc = "tick"
    /\ IF worker_handle = None
          THEN /\ ipc' = "events"
               /\ UNCHANGED <<operation_logs, operation_state, clean_stats,
                              chan, received>>
          ELSE LET u == DrainLoop(operation_logs, operation_state, clean_stats,
                                  FALSE, received, chan)
               IN  /\ operation_logs' = u.logs
                   /\ operation_state' = u.state
                   /\ clean_stats' = u.stats
                   /\ received' = u.got
                   /\ chan' = <<>>
                   /\ ipc' = IF u.clear THEN "drop_flag" ELSE "events"
    /\ UNCHANGED <<current_view, selected_menu_item, should_quit, worker_handle>>
    /\ UNCHANGED pending
    /\ UNCHANGED <<kind, wpc, step, cancel_flag, receiver, thread_handle, out, success, res>>
    /\ UNCHANGED <<cancelReq, nkeys, liveThreads, sent, sawCancel, invocations, outcomes,
                   dropBegan, failedSend, afterFail>>

\* ======================================================= App: key handling
\* while !self.should_quit
NextIter(q) == IF q THEN "quit" ELSE "tick"

\* event::poll times out, or the key changes none of the modelled fields.
NoKey ==
    /\ ipc = "events"
    /\ ipc' = "tick"
    /\ UNCHANGED <<uiVars, pending, workerVars, histVars>>

\* A key press has been handled.  The presses of one run are bounded: by
\* MaxKeys when a worker has been spawned, by MaxMenuKeys when none has.
KeyCounted ==
    /\ nkeys < (IF kind = "none" THEN MaxMenuKeys ELSE MaxKeys)
    /\ nkeys' = nkeys + 1
    /\ UNCHANGED <<cancelReq, liveThreads, sent, received, sawCancel,
                   invocations, outcomes, dropBegan, failedSend, afterFail>>

\* KeyCode::Down | 'j' in the main menu
MenuDown(i) == IF i + 1 < MenuMax THEN i + 1 ELSE MenuMax

\* KeyCode::Up | 'k' in the main menu (saturating_sub)
MenuUp(i) == IF i = 0 THEN 0 ELSE i - 1

KeyDown ==
    /\ ipc = "events" /\ current_view = "MainMenu"
    /\ selected_menu_item' = MenuDown(selected_menu_item)
    /\ ipc' = "tick"
    /\ UNCHANGED <<current_view, operation_logs, operation_state, clean_stats,
                   should_quit, worker_handle>>
    /\ UNCHANGED <<pending, workerVars>>
    /\ KeyCounted

KeyUp ==
    /\ ipc = "events" /\ current_view = "MainMenu"
    /\ selected_menu_item' = MenuUp(selected_menu_item)
    /\ ipc' = "tick"
    /\ UNCHANGED <<current_view, operation_logs, operation_state, clean_stats,
                   should_quit, worker_handle>>
    /\ UNCHANGED <<pending, workerVars>>
    /\ KeyCounted

\* 'q' | Esc in the main menu
KeyQuit ==
    /\ ipc = "events" /\ current_view = "MainMenu"
    /\ should_quit' = TRUE
    /\ ipc' = NextIter(TRUE)
    /\ UNCHANGED <<current_view, selected_menu_item, operation_logs,
                   operation_state, clean_stats, worker_handle>>
    /\ UNCHANGED <<pending, workerVars>>
    /\ KeyCounted

\* 'q' | Esc in an operation view
KeyBack ==
    /\ ipc = "events" /\ current_view # "MainMenu"
    /\ current_view' = "MainMenu"
    /\ operation_state' = "Idle"
    /\ ipc' = "tick"
    /\ UNCHANGED <<selected_menu_item, operation_logs, clean_stats, should_quit,
                   worker_handle>>
    /\ UNCHANGED <<pending, workerVars>>
    /\ KeyCounted

\* The view each menu entry leads to (the match in KeyCode::Enter).
ViewOf(i) ==
    CASE i = 0  -> "Clean"
      [] i = 1  -> "RecycleBin"
      [] i = 2  -> "BrowserCache"
      [] i = 3  -> "SystemLogs"
      [] i = 4  -> "WindowsUpdate"
      [] i = 5  -> "Optimize"
      [] i = 6  -> "StartupOptimizer"
      [] i = 7  -> "VisualEffects"
      [] i = 8  -> "Network"
      [] i = 9  -> "Repair"
      [] i = 10 -> "Privacy"
      [] i = 11 -> "Info"
      [] OTHER  -> "MainMenu"

\* Entries 0..10 call an execute_* function of cleanup.rs / optimization.rs.
RunsOperation(i) == i \in 0..10

\* KeyCode::Enter: the logs are cleared, then the entry is activated.  An
\* execute_* function begins by setting Running and logging its start line.
KeyEnter ==
    /\ ipc = "events" /\ current_view = "MainMenu"
    /\ LET i == selected_menu_item IN
       IF RunsOperation(i)
          THEN /\ operation_logs' = << <<"start ", ViewOf(i)>> >>
               /\ operation_state' = "Running"
               /\ pending' = i
               /\ ipc' = "sync"
               /\ UNCHANGED <<current_view, should_quit>>
          ELSE /\ operation_logs' = <<>>
               /\ current_view' = ViewOf(i)
               /\ should_quit' = (should_quit \/ i = 12)
               /\ ipc' = NextIter(i = 12)
               /\ UNCHANGED <<operation_state, pending>>
    /\ UNCHANGED <<selected_menu_item, clean_stats, worker_handle>>
    /\ UNCHANGED <<workerVars>>
    /\ KeyCounted

\* Counters execute_clean may compute.
StatsChoices == { <<0, 0, 0>>, <<2, 1, 5>> }

SyncFinishFailsOnError ==
    /\ ipc = "sync"
    /\ \E ok \in BOOLEAN :
          /\ operation_logs' = Append(operation_logs,
                                      <<IF ok THEN "done " ELSE "error ", ViewOf(pending)>>)
          /\ IF pending = 0 /\ ok
                THEN \E st \in StatsChoices : clean_stats' = st
                ELSE UNCHANGED clean_stats
          /\ operation_state' = IF ok THEN "Completed" ELSE "Failed"
    /\ current_view' = ViewOf(pending)
    /\ pending' = 0
    /\ ipc' = "tick"
    /\ UNCHANGED <<selected_menu_item, should_quit, worker_handle>>
    /\ UNCHANGED <<workerVars, histVars>>

\* The execute_* function runs to its end on the interactive thread: it logs
\* its result, sets Completed, and the view of the entry is shown.
\* execute_clean stores its counters when the directory could be read.
SyncFinish ==
    /\ ipc = "sync"
    /\ \E ok \in BOOLEAN :
          /\ operation_logs' = Append(operation_logs,
                                      <<IF ok THEN "done " ELSE "error ", ViewOf(pending)>>)
          /\ IF pending = 0 /\ ok
                THEN \E st \in StatsChoices : clean_stats' = st
                ELSE UNCHANGED clean_stats
    /\ operation_state' = "Completed"
    /\ current_view' = ViewOf(pending)
    /\ pending' = 0
    /\ ipc' = "tick"
    /\ UNCHANGED <<selected_menu_item, should_quit, worker_handle>>
    /\ UNCHANGED <<workerVars, histVars>>

\* App::run returns and the App is dropped, the handle in its slot with it.
Quit ==
    /\ ipc = "quit"
    /\ ipc' = IF worker_handle = None THEN "exited" ELSE "drop_flag"
    /\ UNCHANGED <<uiVars, pending, workerVars, histVars>>

\* ================================================= the owner of the App
\* Before App::run takes the App, its owner may put the handle returned by
\* one of the spawn functions into the (public) slot.
Launch ==
    /\ ipc = "new"
    /\ worker_handle = None
    /\ \E k \in Kinds : Spawn(k)
    /\ worker_handle' = Some
    /\ UNCHANGED <<current_view, selected_menu_item, operation_logs,
                   operation_state, clean_stats, should_quit>>
    /\ UNCHANGED mainVars
    /\ UNCHANGED <<step, out, success, res>>
    /\ UNCHANGED <<cancelReq, nkeys, sent, received, sawCancel, invocations, outcomes, dropBegan,
                   failedSend, afterFail>>

\* App::run(self, terminal) is called: the loop starts.
Run ==
    /\ ipc = "new"
    /\ ipc' = "tick"
    /\ UNCHANGED <<uiVars, pending, workerVars, histVars>>

\* A cancel request through a clone of the flag:
\* cancel_flag.store(true, Ordering::Relaxed).
RequestCancel ==
    /\ worker_handle # None
    /\ ~cancel_flag
    /\ cancel_flag' = TRUE
    /\ NoteCancel
    /\ UNCHANGED <<uiVars, mainVars>>
    /\ UNCHANGED <<kind, wpc, step, chan, receiver, thread_handle, out, success, res>>
    /\ UNCHANGED <<nkeys, liveThreads, sent, received, sawCancel, invocations, outcomes,
                   dropBegan, failedSend, afterFail>>

\* ================================================================== Spec
Next ==
    \/ Worker
    \/ ProcessWorkerMessages
    \/ DropStoreFlag \/ DropJoin \/ DropFields
    \/ NoKey \/ KeyDown \/ KeyUp \/ KeyQuit \/ KeyBack \/ KeyEnter \/ SyncFinish
    \/ Quit \/ Launch \/ Run \/ RequestCancel

Spec == Init /\ [][Next]_vars


\* The owner replaces the receiver held by the handle before App::run is
\* called (handle.receiver is a public field): the receiving end of the
\* worker's channel is gone while the worker thread runs.
ReplaceReceiver ==
    /\ ipc = "new"
    /\ worker_handle = Some
    /\ receiver
    /\ receiver' = FALSE
    /\ chan' = <<>>
    /\ UNCHANGED <<uiVars, mainVars>>
    /\ UNCHANGED <<kind, wpc, step, cancel_flag, thread_handle, out, success, res>>
    /\ UNCHANGED histVars

NextClient == Next \/ ReplaceReceiver

SpecClient == Init /\ [][NextClient]_vars

\* ================================================================ claims
Range(q) == { q[i] : i \in 1..Len(q) }

IsPrefix(p, q) == Len(p) <= Len(q) /\ SubSeq(q, 1, Len(p)) = p

CompletedIdx(q) == { i \in 1..Len(q) : q[i] = Completed }

StateChanges(q) == SelectSeq(q, LAMBDA m : m.type = "StateChange")

HandleDropped == worker_handle = None /\ kind # "none"

\* C1: what the consumer has received is always a prefix of what the worker
\* has sent (same order, nothing lost, nothing twice); while the receiver
\* exists the rest is exactly what is queued.
C1_Fifo ==
    /\ IsPrefix(received, sent)
    /\ receiver => sent = received \o chan

C1_Witness == Len(received) >= 2 /\ Len(chan) >= 2 /\ wpc # "exited"

\* C2 as stated: for every launched operation the consumer observes exactly
\* one Completed, as the last message of the operation; the worker sends
\* nothing after Completed and never returns without having sent it.
C2_ExactlyOneObserved ==
    /\ CompletedIdx(sent) \subseteq {Len(sent)}
    /\ wpc = "exited" => CompletedIdx(sent) = {Len(sent)}
    /\ HandleDropped => CompletedIdx(received) = {Len(received)}

\* C2 as amended: the worker sends nothing after Completed and never returns
\* without having sent it exactly once; the consumer never receives a second
\* Completed nor anything after it, and when the handle is released by a
\* drain (not by the teardown of a quit) the consumer has received exactly
\* one Completed, as its last message.
C2_CompletedOnceLast ==
    /\ CompletedIdx(sent) \subseteq {Len(sent)}
    /\ wpc = "exited" => CompletedIdx(sent) = {Len(sent)}
    /\ CompletedIdx(received) \subseteq {Len(received)}
    /\ (HandleDropped /\ ~should_quit) => CompletedIdx(received) = {Len(received)}

C2_Witness == HandleDropped /\ ~should_quit /\ Completed \in Range(received)

\* C3: a worker that has read the flag as true at one of its checks never
\* sends StateChange(Completed), and the last state it sends is Failed.
C3_CancelEndsFailed ==
    sawCancel > 0 =>
        /\ StateChange("Completed") \notin Range(sent)
        /\ wpc = "exited" =>
              StateChanges(sent)[Len(StateChanges(sent))] = StateChange("Failed")

C3_Witness == sawCancel = 2 /\ wpc = "exited"

\* C4: once the drop of the handle has returned, the worker thread has
\* exited, wherever the worker was when the drop began.
C4_DropJoins ==
    (ipc = "drop_fields" \/ HandleDropped) => wpc = "exited"

C4_Witness == HandleDropped /\ dropBegan = "exec_proc"

\* C5: teardown order: the flag is true while the teardown waits for the
\* thread, and the receiver is released only when the flag is true and the
\* thread has been joined.
C5_TeardownOrder ==
    /\ ipc \in {"drop_join", "drop_fields"} => cancel_flag
    /\ (kind # "none" /\ ~receiver) =>
          cancel_flag /\ thread_handle = "taken" /\ wpc = "exited"

C5_Witness == kind # "none" /\ ~receiver /\ dropBegan \notin {"none", "exited"}

Rank(state) ==
    CASE state = "Idle"     -> 0
      [] state = "Starting" -> 1
      [] state = "Running"  -> 2
      [] OTHER              -> 3

OperationInFlight == worker_handle = Some \/ ipc = "sync"

OperationStarts ==
    \/ ipc # "sync" /\ ipc' = "sync"
    \/ worker_handle = None /\ worker_handle' = Some

C7_StateMonotone ==
    [][ /\ (OperationInFlight /\ operation_state' # operation_state)
              => Rank(operation_state') > Rank(operation_state)
        /\ OperationStarts => operation_state = "Idle" ]_vars

\* C8: after a send has failed the worker attempts no further send.
C8_StopsOnFailedSend == afterFail = 0

\* C9: the first two messages of a worker are StateChange(Starting) and
\* StateChange(Running).
C9_StartingThenRunning ==
    /\ Len(sent) >= 1 => sent[1] = StateChange("Starting")
    /\ Len(sent) >= 2 => sent[2] = StateChange("Running")

\* C10 as stated: cancellation requested before the first step starts means
\* no invocation of execute_command and the messages cancelled, Failed,
\* Completed at the end.
CancelledRun ==
    <<StateChange("Running"), Log(Header(kind)), Log(CancelText),
      StateChange("Failed"), Completed>>

C10_CancelBeforeFirstStep ==
    (cancelReq = "before_first_step" /\ wpc = "exited") =>
        invocations = 0 /\ sent = CancelledRun

\* C10 as amended: a worker that reads the flag as true at its check before
\* the first step never invokes execute_command and sends the cancelled Log,
\* StateChange(Failed) and Completed, in that order, and nothing after them.
C10_CancelSeenAtFirstCheck ==
    sawCancel = 1 =>
        /\ invocations = 0
        /\ IsPrefix(sent, CancelledRun)
        /\ wpc = "exited" => sent = CancelledRun

C10_Witness == sawCancel = 1 /\ wpc = "exited" /\ cancelReq = "before_first_step"

Count(q, m) == Cardinality({ i \in 1..Len(q) : q[i] = m })

LastState(q) == StateChanges(q)[Len(StateChanges(q))]

\* C11: a repair worker that saw no cancellation has run both steps whatever
\* the first returned, its last state is Completed iff both steps succeeded
\* and Failed otherwise, and that state is followed by the one Completed; if
\* step 1 succeeded and step 2 failed, the output and result of both steps
\* were sent.
C11_RepairResult ==
    (kind = "repair" /\ sawCancel = 0 /\ wpc = "exited") =>
        /\ invocations = 2
        /\ Len(res) = 2
        /\ Count(sent, Log(AnnounceText)) = 2
        /\ LastState(sent) =
              StateChange(IF res[1] /\ res[2] THEN "Completed" ELSE "Failed")
        /\ sent[Len(sent) - 1] = LastState(sent)
        /\ CompletedIdx(sent) = {Len(sent)}
        /\ res = <<TRUE, FALSE>> =>
              /\ Count(sent, Log(OkText)) = 1
              /\ Count(sent, Log(<<"out">>)) >= 1
              /\ Count(sent, Log(FailText)) + Count(sent, ErrorMsg(LaunchErrText)) = 1
              /\ Log(FailText) \in Range(sent) =>
                    /\ Count(sent, Log(<<"out">>)) = 2
                    /\ Log(<<"ERROR: ", "err">>) \in Range(sent)

C11_Witness ==
    /\ kind = "repair" /\ sawCancel = 0 /\ wpc = "exited"
    /\ res = <<TRUE, FALSE>>
    /\ Log(FailText) \in Range(sent)

InStep == wpc \in {"exec_proc", "exec_lines", "exec_status", "exec_lerr"}

StepResults == {Log(OkText), Log(FailText), ErrorMsg(LaunchErrText)}

\* C12: the worker turns to its cancellation path only from one of the checks
\* placed before a step; once the external process of a step has been
\* started, every worker step stays inside the step until execute_command
\* returns, and it returns having sent the result of the step (the status
\* line or the launch error), whatever the value of the flag.
C12_StepNotInterrupted ==
    [][ /\ (wpc' = "cancel_log" /\ wpc # "cancel_log") => wpc = "check"
        /\ sawCancel' # sawCancel => wpc = "check"
        /\ (InStep /\ wpc' # wpc) =>
              \/ InStep'
              \/ /\ Len(res') = Len(res) + 1
                 /\ Len(sent') = Len(sent) + 1
                 /\ sent'[Len(sent')] \in StepResults ]_vars

C12_Witness == dropBegan = "exec_proc" /\ cancel_flag /\ wpc = "exec_status"

\* C13: whenever process_worker_messages has returned, the slot is empty
\* exactly if Completed has been received, and then the thread has been
\* joined; a drain that does not receive Completed leaves the handle in the
\* slot, and the interactive thread is inside the drop of the handle during
\* the loop only after a drain that received Completed.
C13_ReleasedOnCompleted ==
    /\ (kind # "none" /\ ipc \in {"events", "sync", "tick", "quit"}) =>
          /\ worker_handle = None <=> Completed \in Range(received)
          /\ worker_handle = None => (thread_handle = "taken" /\ wpc = "exited")
    /\ (ipc \in {"drop_flag", "drop_join", "drop_fields"} /\ ~should_quit) =>
          Completed \in Range(received)

C13_Witness ==
    /\ ipc = "events" /\ worker_handle = None /\ thread_handle = "taken"
    /\ Len(received) > 0 /\ received[Len(received)] = Completed

\* The statement the interactive thread is at, when it is not waiting for a
\* key: the owner calls App::run, event::poll returns after its timeout, a
\* synchronous operation returns, the drop of a handle goes on.
MainStep ==
    \/ Run \/ ProcessWorkerMessages \/ NoKey \/ SyncFinish \/ Quit
    \/ DropStoreFlag \/ DropJoin \/ DropFields

\* Scheduling: the worker thread keeps running and every external process
\* exits; the interactive thread keeps running.
Fairness == WF_vars(Worker) /\ WF_vars(MainStep)

\* The key presses that change what the interactive thread does next: Enter
\* (a synchronous operation keeps it away from the drain) and q/Esc in the
\* menu (the loop ends).  The other keys change selected_menu_item,
\* current_view and operation_state only, which neither the drain nor the
\* drop of the handle reads.
NextLive ==
    \/ Worker \/ MainStep \/ Launch \/ RequestCancel
    \/ KeyQuit \/ KeyEnter

SpecLive == Init /\ [][NextLive]_vars /\ Fairness

\* C14: a handle in the slot leads to the slot being empty with the thread
\* joined, and, unless the user has quit the loop, with Completed received.
C14_EventuallyReleased ==
    (worker_handle = Some) ~>
        /\ worker_handle = None
        /\ thread_handle = "taken"
        /\ wpc = "exited"
        /\ should_quit \/ Completed \in Range(received)

C14_Witness ==
    /\ worker_handle = None /\ thread_handle = "taken" /\ ~should_quit
    /\ kind = "repair" /\ Len(res) = 2 /\ Completed \in Range(received)

\* C15 as stated: while the loop of App::run is running, no statement of the
\* interactive thread waits for the worker: whenever the interactive thread
\* is at the join of the drop, the thread has already ended.
C15_NeverWaits ==
    (ipc = "drop_join" /\ ~should_quit) => JoinReturns

\* C15 as amended: while the loop is running the interactive thread reaches
\* the join only after it has received Completed, when the worker has sent
\* its last message and has only to return; everywhere else in the loop it
\* takes its next step without any step of the worker.
C15_WaitsOnlyForReturn ==
    /\ (ipc \in {"drop_flag", "drop_join"} /\ ~should_quit) =>
          /\ wpc \in {"returning", "exited"}
          /\ Completed \in Range(received)
          /\ chan = <<>>
    /\ ipc \in {"tick", "events", "sync", "quit", "drop_flag", "drop_fields"} =>
          ENABLED MainStep

C15_Witness == ipc = "drop_join" /\ ~should_quit /\ wpc = "returning"

\* Menu entries 4 (Windows Update cleanup) and 9 (system repair): the
\* operations the spawn functions of executor.rs exist for.
WorkerEntries == {4, 9}

\* C16: Enter on the Windows Update cleanup or system repair entry puts the
\* handle of a new worker into the empty slot, and the operation is not run
\* on the interactive thread.
C16_MenuLaunchSpawns ==
    [][ (KeyEnter /\ selected_menu_item \in WorkerEntries) =>
            /\ worker_handle = None
            /\ worker_handle' = Some
            /\ ipc' # "sync" ]_vars

\* The lines of the messages q as process_worker_messages pushes them.
LinesOf(q) == { ApplyLogs(<<>>, q[i])[1] : i \in { j \in 1..Len(q) : q[j].type \in {"Log", "Error"} } }

\* C17: when the consumer releases the handle of a worker that has sent
\* StateChange(Failed), the UI state shows Failed and its log contains every
\* line the worker has sent.
C17_FailureVisible ==
    [][ (worker_handle = Some /\ worker_handle' = None /\ ~should_quit
            /\ StateChange("Failed") \in Range(sent)) =>
            /\ operation_state' = "Failed"
            /\ LinesOf(sent) \subseteq Range(operation_logs') ]_vars

StatsLeq(a, b) == \A i \in 1..3 : a[i] <= b[i]

\* C18: while an operation is in flight no step makes any of the three
\* counters of clean_stats smaller.
C18_CountersMonotone ==
    [][ OperationInFlight => StatsLeq(clean_stats, clean_stats') ]_vars

\* C19: clean_stats is all zero at the moment an operation starts.
C19_ZeroAtStart ==
    [][ OperationStarts => clean_stats = ZeroStats ]_vars

\* C20: the flag of a handle is false when a spawn function has created the
\* handle, and no step takes the flag from true back to false.
C20_FlagMonotone ==
    [][ /\ (worker_handle = None /\ worker_handle' = Some) => ~cancel_flag'
        /\ cancel_flag => cancel_flag' ]_vars

C20_Witness == cancel_flag /\ HandleDropped /\ sawCancel = 0 /\ cancelReq = "later"

\* The invocations of execute_command that have returned and whose external
\* process could not be launched.
LaunchFailures == { i \in 1..Len(res) : ~outcomes[i].launched }

C22_EmptyDrainNoChange ==
    [][ (ipc = "tick" /\ ipc' # "tick" /\ (worker_handle = None \/ chan = <<>>))
        => /\ ipc' = "events"
           /\ UNCHANGED <<operation_logs, operation_state, clean_stats, worker_handle>> ]_vars

C22_Witness ==
    /\ ipc = "events" /\ nkeys = 0
    /\ worker_handle = Some /\ wpc = "spawned" /\ chan = <<>>
    /\ operation_logs = <<>> /\ operation_state = "Idle"

\* The worker thread has been spawned and has not run to its end.
ThreadAlive == wpc \notin {"none", "exited"}

\* C23: as long as the worker thread has not exited the receiving end of its
\* channel exists, so no send of a worker has failed and no worker has taken
\* a channel-closed early return: whatever it has sent was sent to a live
\* receiver and execute_command never returned because of a failed send.
C23_ReceiverOutlivesWorker ==
    /\ ThreadAlive => receiver
    /\ ~failedSend
    /\ (~receiver /\ kind # "none") => (wpc = "exited" /\ thread_handle = "taken")

C23_Witness ==
    /\ ipc = "drop_join" /\ ThreadAlive /\ receiver
    /\ wpc = "exec_lines" /\ cancel_flag

\* C24 (as stated): every invocation of execute_command begins in a state in
\* which the cancellation flag is false.
C24_NoStepAfterFlag ==
    [][ invocations' > invocations => ~cancel_flag ]_vars

\* C24 (amended): a check that finds the flag true takes the cancellation
\* path, and once the worker has observed the flag true it starts no further
\* external step; a store that lands after the check of a step does not stop
\* that step.
C24_NoStepAfterObserved ==
    [][ /\ (wpc = "check" /\ wpc' # "check" /\ cancel_flag)
            => (wpc' = "cancel_log" /\ sawCancel' = step)
        /\ sawCancel > 0 => invocations' = invocations ]_vars

C24_Witness ==
    /\ kind = "repair" /\ sawCancel = 2 /\ wpc = "exited"
    /\ invocations = 1 /\ Len(res) = 1

\* ------------------------------------------- one message through the drain
\* enum OperationState
OperationStates == {"Idle", "Starting", "Running", "Completed", "Failed"}

\* One message of every variant of WorkerMessage.
OneMessage ==
    {Log(<<"line">>), ErrorMsg(<<"reason">>), Completed, StatsUpdate(<<1, 0, 3>>)}
        \cup { StateChange(st) : st \in OperationStates }

\* A handle built as in test_worker_handle_creation (no thread, the sender
\* kept by its creator) sits in the slot with one message sent on its
\* channel; the App is at the top of an iteration of its loop with some logs,
\* some state and some counters.
InitApply ==
    /\ current_view = "MainMenu"
    /\ selected_menu_item = 0
    /\ operation_logs \in {<<>>, << <<"old">> >>}
    /\ operation_state \in OperationStates
    /\ clean_stats \in StatsChoices
    /\ should_quit = FALSE
    /\ worker_handle = Some
    /\ ipc = "tick"
    /\ pending = 0
    /\ kind = "literal"
    /\ wpc = "none"
    /\ step = 0
    /\ cancel_flag = FALSE
    /\ \E m \in OneMessage : chan = <<m>> /\ sent = <<m>>
    /\ receiver = TRUE
    /\ thread_handle = "none"
    /\ out = <<>>
    /\ success = FALSE
    /\ res = <<>>
    /\ nkeys = 0
    /\ liveThreads = 0
    /\ received = <<>>
    /\ sawCancel = 0
    /\ invocations = 0
    /\ outcomes = <<>>
    /\ cancelReq = "none"
    /\ dropBegan = "none"
    /\ failedSend = FALSE
    /\ afterFail = 0

\* Drop::drop, second statement, when thread_handle is None: take() yields
\* None and nothing is joined.
DropNoThread ==
    /\ ipc = "drop_join"
    /\ thread_handle = "none"
    /\ ipc' = "drop_fields"
    /\ UNCHANGED <<uiVars, pending, workerVars, histVars>>

NextApply ==
    \/ ProcessWorkerMessages
    \/ DropStoreFlag \/ DropNoThread \/ DropFields

SpecApply == InitApply /\ [][NextApply]_vars

\* C25: a drain that receives exactly one message performs the mutation of
\* its variant and no other: Log appends its line, StateChange overwrites the
\* state, StatsUpdate replaces the counters by the carried snapshot, Error
\* appends its text behind the error tag, Completed changes none of the three
\* fields.
C25_OneMutationPerMessage ==
    [][ (ipc = "tick" /\ ipc' # "tick" /\ worker_handle = Some /\ Len(chan) = 1) =>
        LET m == chan[1] IN
        /\ m.type = "Log" =>
              /\ operation_logs' = Append(operation_logs, m.val)
              /\ UNCHANGED <<operation_state, clean_stats>>
        /\ m.type = "StateChange" =>
              /\ operation_state' = m.val[1]
              /\ UNCHANGED <<operation_logs, clean_stats>>
        /\ m.type = "StatsUpdate" =>
              /\ clean_stats' = m.val
              /\ UNCHANGED <<operation_logs, operation_state>>
        /\ m.type = "Error" =>
              /\ operation_logs' = Append(operation_logs, <<"X ERROR: ">> \o m.val)
              /\ UNCHANGED <<operation_state, clean_stats>>
        /\ m.type = "Completed" =>
              UNCHANGED <<operation_logs, operation_state, clean_stats>> ]_vars

C25_Witness ==
    /\ ipc = "events" /\ received = <<StatsUpdate(<<1, 0, 3>>)>>
    /\ clean_stats = <<1, 0, 3>>
    /\ operation_logs = << <<"old">> >> /\ operation_state = "Failed"

\* The lines of a stream that are not blank, in their order.
RECURSIVE Kept(_)
Kept(lines) ==
    IF lines = <<>> THEN <<>>
    ELSE IF Head(lines) \in {"", " "} THEN Kept(Tail(lines))
    ELSE <<Head(lines)>> \o Kept(Tail(lines))

\* What one command is to send for its output: a Log per kept line of the
\* standard output, then a Log with the prefix per kept line of the standard
\* error.
ExpectedLogs(oc) ==
    [i \in 1..(Len(Kept(oc.stdout)) + Len(Kept(oc.stderr))) |->
        IF i <= Len(Kept(oc.stdout))
           THEN Log(<<Kept(oc.stdout)[i]>>)
           ELSE Log(<<"ERROR: ", Kept(oc.stderr)[i - Len(Kept(oc.stdout))]>>)]

\* C26: when execute_command has sent the output of its process and is about
\* to report the exit status, the messages it has sent since its announcement
\* are exactly one Log per non-blank line of the standard output followed by
\* one Log prefixed "ERROR: " per non-blank line of the standard error, in
\* the order of the lines; blank lines have produced no message.
C26_OutputLines ==
    wpc = "exec_status" =>
        LET e == ExpectedLogs(outcomes[Len(outcomes)])
            n == Len(sent)
        IN  /\ n > Len(e)
            /\ SubSeq(sent, n - Len(e) + 1, n) = e
            /\ sent[n - Len(e)] = Log(AnnounceText)

C26_Witness ==
    /\ wpc = "exec_status" /\ Len(sent) >= 4
    /\ SubSeq(sent, Len(sent) - 3, Len(sent)) =
          <<Log(AnnounceText), Log(<<"out">>),
            Log(<<"ERROR: ", "err">>), Log(<<"ERROR: ", "err2">>)>>

\* The interactive thread is inside the drop of the handle, or past it.
InDrop == ipc \in {"drop_flag", "drop_join", "drop_fields", "exited"}

\* C27: from the moment the drop of a handle begins, no message of its worker
\* is received or applied: while the drop runs operation_logs, operation_state
\* and clean_stats do not change, and once the slot is empty again a drain
\* changes none of them; what was queued or is sent meanwhile is discarded
\* with the receiver.
C27_NoEffectAfterDrop ==
    [][ /\ (InDrop \/ HandleDropped) => received' = received
        /\ (InDrop \/ (HandleDropped /\ ipc = "tick")) =>
              UNCHANGED <<operation_logs, operation_state, clean_stats>>
        /\ HandleDropped' => (chan' = <<>> /\ ~receiver') ]_vars

C27_Witness ==
    /\ ipc = "exited" /\ HandleDropped /\ dropBegan = "check"
    /\ sawCancel = 1 /\ Len(sent) = Len(received) + 3
    /\ SubSeq(sent, Len(sent) - 1, Len(sent)) = <<StateChange("Failed"), Completed>>
    /\ operation_state = "Running"

\* C28: once the consumer has received Completed, and so releases the handle,
\* everything the worker has sent has been received and applied and nothing
\* is left in the channel; a handle is released while the loop runs only in
\* that case.
C28_NothingLeftUnread ==
    /\ Completed \in Range(received) => (received = sent /\ chan = <<>>)
    /\ (kind # "none" /\ ~should_quit /\ (InDrop \/ HandleDropped)) =>
          Completed \in Range(received)

C28_Witness ==
    /\ HandleDropped /\ ~should_quit /\ ipc = "events"
    /\ kind = "repair" /\ Len(res) = 2
    /\ received = sent /\ received[Len(received)] = Completed

\* C29: an execute_* function called from the menu sets operation_state to
\* Running when it begins, the state is Running for as long as the function
\* runs, and the function leaves it Completed when it returns, whether it
\* succeeded or ended with an error; it never sets Failed.
C29_SyncRunningThenCompleted ==
    [][ /\ (ipc # "sync" /\ ipc' = "sync") => operation_state' = "Running"
        /\ (ipc = "sync" /\ ipc' = "sync") => operation_state' = "Running"
        /\ (ipc = "sync" /\ ipc' # "sync") => operation_state' = "Completed"
        /\ (ipc = "sync" \/ ipc' = "sync") => operation_state' # "Failed" ]_vars

C29_Witness ==
    /\ ipc = "tick" /\ current_view = "Repair"
    /\ operation_state = "Completed"
    /\ operation_logs = << <<"start ", "Repair">>, <<"error ", "Repair">> >>

\* C30: selected_menu_item always designates one of the 13 entries of the
\* menu, i.e. it is within 0..12.
C30_SelectionInRange == selected_menu_item \in 0..12

====
